---- MODULE Spec2Model ----
(***************************************************************************)
(* Experience accumulation and batch generation of algos/a3c_atari.py:     *)
(* Player.play, Player._memory_to_samples and generate_batches.            *)
(*                                                                         *)
(* Numbers are fixed-point integers: 4 stands for 1.0.  A transition is    *)
(* the tuple <<state, action, reward, value>> and a training sample the    *)
(* tuple <<state, action, R, advantage>>, as in the source.  Players are   *)
(* numbered 1..PLAYERS_COUNT in list order.                                *)
(***************************************************************************)
EXTENDS Integers, Sequences, FiniteSets, TLC

\* ------------------------------------------------------------------ bounds
PLAYERS_COUNT == 2
BATCH_SIZE == 2
reward_steps == 1
max_steps == 2
\* play calls of a run whose history is recorded
MaxCalls == 8
\* the largest steps argument of a call play(steps) made on its own
MaxStepsToRun == 3
\* environment steps of a run of such calls
MaxPlayed == 5
\* the longest memory _memory_to_samples is applied to on its own
MaxSegment == 3

\* ------------------------------------------------------- program parameters
gamma == [num |-> 1, den |-> 2]
batch_size == BATCH_SIZE
players == 1 .. PLAYERS_COUNT

VARIABLES
    state,          \* state[p]: Player.state, the observation the next step acts on
    memory,         \* memory[p]: Player.memory, a sequence of transitions
    step_index,     \* step_index[p]: Player.step_index
    episode_reward, \* episode_reward[p]: Player.episode_reward
    env,            \* env[p]: the environment of player p: observations handed out, steps taken,
                    \* the observation its episode started with, the steps of its episode
    samples,        \* the pool of generate_batches
    pc,             \* where generate_batches stands: "round", "slice" or "yield"
    idx,            \* the player the for loop of a round is at
    batch,          \* the value of the last yield
    run_weights,    \* the weights of run_model, the policy the players act on
    train_weights,  \* the weights of value_policy_model: the train_on_batch calls made
    iter_idx,       \* the batches the training loop has taken
    consumed,       \* TRUE: the loop body has run on the batch of the last yield
    recording,      \* TRUE: the run is finite and its history is recorded
    calls,          \* history: the players of the play calls of generate_batches, in order
    recorded,       \* history: recorded[p], the transitions player p appended to its memory
    call,           \* history: what the last call play(n) with a free n did
    produced,       \* history: the samples returned by the play calls, in order
    emitted,        \* history: the samples of the batches yielded, in order
    last            \* history: what the last play call did

vars == <<state, memory, step_index, episode_reward, env, samples, pc, idx, batch,
          run_weights, train_weights, iter_idx, consumed,
          recording, calls, recorded, call, produced, emitted, last>>

\* ------------------------------------------------------------ environment
\* The action drawn from the policy's distribution (np.random.choice).
Actions == IF recording THEN {0, 1} ELSE {0}

\* The reward env.step pays for an action.
Reward(action) == 4 * action

\* The observation the environment of player p hands out as its n-th.
Observation(p, n) == <<p, n>>

\* The value estimate the run model predicts for a state.
PredictValue(s) == 2 + 4 * (s[2] % 2)

\* ------------------------------------------------- Player._memory_to_samples
\* last_item[-1]: the value estimate of the popped transition
Bootstrap(last_item) == last_item[4]

\* R * self.gamma (faulty variant first: the discount left out)
DiscountedWithoutGamma(R) == R
Discounted(R) == (R * gamma.num) \div gamma.den

\* advantage = R - value (faulty variant first: the operands swapped)
AdvantageReversed(R, value) == value - R
Advantage(R, value) == R - value

\* result.append(sample)
\* (faulty variants first: the sample put in front, the sample replacing the list)
EmitFirst(result, sample) == <<sample>> \o result
EmitAlone(result, sample) == <<sample>>
Emit(result, sample) == Append(result, sample)

\* The for loop over reversed(mem): k is the index of the next transition.
RECURSIVE SamplesLoop(_, _, _, _)
SamplesLoop(mem, k, R, result) ==
    IF k = 0 THEN result
    ELSE LET R1 == mem[k][3] + Discounted(R)
         IN  SamplesLoop(mem, k - 1, R1,
                         Emit(result, <<mem[k][1], mem[k][2], R1, Advantage(R1, mem[k][4])>>))

\* if not is_done: last_item = self.memory.pop()
\* (faulty variant first: the last transition stays in the list)
PopNothing(mem, is_done) == mem
Pop(mem, is_done) == IF is_done THEN mem ELSE SubSeq(mem, 1, Len(mem) - 1)

\* self.memory = [] if is_done else [last_item]
\* (faulty variants first: the flag ignored either way)
RemainingAlwaysEmpty(is_done, last_item) == <<>>
RemainingAlwaysLast(is_done, last_item) == <<last_item>>
Remaining(is_done, last_item) == IF is_done THEN <<>> ELSE <<last_item>>

\* The samples returned and the memory left.
MemoryToSamples(mem, is_done) ==
    LET last_item == mem[Len(mem)]
        popped == Pop(mem, is_done)
        R == IF is_done THEN 0 ELSE Bootstrap(last_item)
    IN  [result |-> SamplesLoop(popped, Len(popped), R, <<>>),
         memory |-> Remaining(is_done, last_item)]

\* ------------------------------------------------------------- Player.play
\* if done or self.step_index > self.max_steps
\* (faulty variant first: the budget compared one step late)
EpisodeOverLate(done, si) == done \/ si > max_steps + 1
EpisodeOver(done, si) == done \/ si > max_steps

\* elif len(self.memory) == self.reward_steps + 1
\* (faulty variant first: the flush made one transition late)
FlushDueLate(mem) == Len(mem) = reward_steps + 2
FlushDue(mem) == Len(mem) = reward_steps + 1

\* The is_done argument of the flush made when the episode is over.
FlushIsDone(done, si) == done

\* self.state after the iteration: the break skips self.state = new_state
\* (faulty variant first: the break is missing)
StateAfterNoBreak(over, new_state, reset_state) == new_state
StateAfter(over, new_state, reset_state) == IF over THEN reset_state ELSE new_state

\* The fields of player p.
PlayerOf(p) ==
    [state |-> state[p], memory |-> memory[p], step_index |-> step_index[p],
     episode_reward |-> episode_reward[p], env |-> env[p]]

\* One iteration of the loop of play, for player p with the fields pl.
\* The value estimate is taken as the same function of the state under all weights.
Iteration(pl, p, action, done) ==
    LET si == pl.step_index + 1
        value == PredictValue(pl.state)
        new_state == Observation(p, pl.env.obs)
        reset_state == Observation(p, pl.env.obs + (IF recording THEN 1 ELSE 0))
        reward == Reward(action)
        mem == Append(pl.memory, <<pl.state, action, reward, value>>)
        over == EpisodeOver(done, si)
        flushed == over \/ FlushDue(mem)
        is_done == IF over THEN FlushIsDone(done, si) ELSE FALSE
        f == IF flushed THEN MemoryToSamples(mem, is_done)
             ELSE [result |-> <<>>, memory |-> mem]
        handed == IF ~recording THEN 0 ELSE IF over THEN 2 ELSE 1
        ran == pl.env.since + (IF recording THEN 1 ELSE 0)
    IN  [state |-> StateAfter(over, new_state, reset_state),
         memory |-> f.memory,
         step_index |-> IF over THEN 0 ELSE si,
         episode_reward |-> IF over THEN 0 ELSE pl.episode_reward + reward,
         env |-> [obs |-> pl.env.obs + handed,
                  steps |-> pl.env.steps + (IF recording THEN 1 ELSE 0),
                  start |-> IF over THEN reset_state[2] ELSE pl.env.start,
                  since |-> IF over THEN 0 ELSE ran],
         result |-> f.result,
         over |-> over,
         last |-> [player |-> p, done |-> done, truncated |-> si > max_steps,
                   flushed |-> flushed, is_done |-> is_done,
                   before |-> mem, result |-> f.result, after |-> f.memory,
                   new_state |-> new_state,
                   reset_state |-> IF over THEN reset_state ELSE <<>>,
                   start |-> pl.env.start, ran |-> ran,
                   weights |-> run_weights, trained |-> train_weights,
                   batches |-> iter_idx]]

\* One iteration of the loop of play, for player p as it stands.
PlayStep(p, action, done) == Iteration(PlayerOf(p), p, action, done)

\* the break of the loop of play (faulty variant first: the break is missing)
StopsLoopNever(over) == FALSE
StopsLoop(over) == over

\* The loop of play(steps) from iteration k on: inputs[k] is the action drawn and
\* the done flag of the environment in iteration k, acc what the call has done so far.
RECURSIVE PlayLoop(_, _, _, _)
PlayLoop(p, inputs, k, acc) ==
    IF k > Len(inputs) THEN acc
    ELSE LET s == Iteration(acc.player, p, inputs[k][1], inputs[k][2])
             acc1 == [player |-> [state |-> s.state, memory |-> s.memory,
                                  step_index |-> s.step_index,
                                  episode_reward |-> s.episode_reward, env |-> s.env],
                      result |-> acc.result \o s.result,
                      iterations |-> Append(acc.iterations, s.last)]
         IN  IF StopsLoop(s.over) THEN acc1 ELSE PlayLoop(p, inputs, k + 1, acc1)

\* play(steps) on player p, steps being Len(inputs): result = [] and the loop.
PlaySteps(p, inputs) ==
    PlayLoop(p, inputs, 1, [player |-> PlayerOf(p), result |-> <<>>, iterations |-> <<>>])

\* --------------------------------------------------------- generate_batches
\* the for loop over players has reached the last player
\* (faulty variant first: the round is taken to end after every player)
RoundDoneAfterEachPlayer(i) == TRUE
RoundDone(i) == i = PLAYERS_COUNT

\* samples.extend(player.play(1)) (faulty variant first: the result is not kept)
ExtendDiscarded(pool, result) == pool
Extend(pool, result) == pool \o result

\* while len(samples) >= batch_size (faulty variant first: any sample is enough)
BatchReadyAnySample(pool) == Len(pool) >= 1
BatchReady(pool) == Len(pool) >= batch_size

Min(a, b) == IF a < b THEN a ELSE b

\* samples[:n]
Take(s, n) == SubSeq(s, 1, Min(n, Len(s)))

\* samples[n:] (faulty variant first: off by one)
DropOffByOne(s, n) == SubSeq(s, Min(n, Len(s)), Len(s))
Drop(s, n) == SubSeq(s, Min(n, Len(s)) + 1, Len(s))

Column(ss, k) == [i \in 1 .. Len(ss) |-> ss[i][k]]

\* The value yielded for the samples ss: [states, actions, advantages], [rewards, rewards]
\* (faulty variant first: the returns as an input and the advantages as the targets)
MakeBatchSwapped(ss) ==
    <<<<Column(ss, 1), Column(ss, 2), Column(ss, 3)>>, <<Column(ss, 4), Column(ss, 4)>>>>
MakeBatch(ss) ==
    LET states == Column(ss, 1)
        actions == Column(ss, 2)
        rewards == Column(ss, 3)
        advantages == Column(ss, 4)
    IN  <<<<states, actions, advantages>>, <<rewards, rewards>>>>

\* ------------------------------------------------------------ training loop
SYNC_MODEL_EVERY_BATCH == 1

\* if iter_idx % SYNC_MODEL_EVERY_BATCH == 0
\* (faulty variant first: the weights copied before every other batch only)
SyncDueEveryOther(i) == i % (SYNC_MODEL_EVERY_BATCH + 1) = 1
SyncDue(i) == i % SYNC_MODEL_EVERY_BATCH = 0

\* ------------------------------------------------------------------- Init
NoPlay == [player |-> 0, done |-> FALSE, truncated |-> FALSE, flushed |-> FALSE,
           is_done |-> FALSE, before |-> <<>>, result |-> <<>>, after |-> <<>>,
           new_state |-> <<>>, reset_state |-> <<>>, start |-> 0, ran |-> 0,
           weights |-> 0, trained |-> 0, batches |-> 0]

NoCall == [player |-> 0, n |-> 0, iterations |-> <<>>, result |-> <<>>, steps_before |-> 0]

InitPlayers ==
    /\ state = [p \in players |-> Observation(p, 0)]
    /\ memory = [p \in players |-> <<>>]
    /\ step_index = [p \in players |-> 0]
    /\ episode_reward = [p \in players |-> 0]
    /\ env = [p \in players |-> [obs |-> IF recording THEN 1 ELSE 0, steps |-> 0,
                                 start |-> 0, since |-> 0]]
    /\ recorded = [p \in players |-> <<>>]
    /\ call = NoCall

InitGenerator ==
    /\ samples = <<>>
    /\ pc = "round"
    /\ idx = 1
    /\ batch = <<>>
    /\ run_weights = 0 - 1
    /\ train_weights = 0
    /\ iter_idx = 0
    /\ consumed = FALSE
    /\ calls = <<>>
    /\ produced = <<>>
    /\ emitted = <<>>
    /\ last = NoPlay

Init ==
    /\ recording = TRUE
    /\ InitPlayers
    /\ InitGenerator

InitLive ==
    /\ recording = FALSE
    /\ InitPlayers
    /\ InitGenerator

\* ---------------------------------------------------------------- actions
\* for player in players: samples.extend(player.play(1))
Play ==
    /\ pc = "round"
    /\ recording => Len(calls) < MaxCalls
    /\ \E action \in Actions, done \in BOOLEAN :
         LET s == PlayStep(idx, action, done)
         IN  /\ state' = [state EXCEPT ![idx] = s.state]
             /\ memory' = [memory EXCEPT ![idx] = s.memory]
             /\ step_index' = [step_index EXCEPT ![idx] = s.step_index]
             /\ episode_reward' = [episode_reward EXCEPT ![idx] = s.episode_reward]
             /\ env' = [env EXCEPT ![idx] = s.env]
             /\ samples' = Extend(samples, s.result)
             /\ calls' = IF recording THEN Append(calls, idx) ELSE calls
             /\ produced' = IF recording THEN produced \o s.result ELSE produced
             /\ last' = IF recording THEN s.last ELSE last
             /\ recorded' = IF recording
                               THEN [recorded EXCEPT ![idx] = Append(@, s.last.before[Len(s.last.before)])]
                               ELSE recorded
    /\ IF RoundDone(idx)
         THEN idx' = 1 /\ pc' = "slice"
         ELSE idx' = idx + 1 /\ pc' = pc
    /\ UNCHANGED <<batch, run_weights, train_weights, iter_idx, consumed, recording,
                   call, emitted>>

\* while len(samples) >= batch_size: ... yield
Yield ==
    /\ pc = "slice"
    /\ BatchReady(samples)
    /\ batch' = MakeBatch(Take(samples, batch_size))
    /\ emitted' = IF recording THEN emitted \o Take(samples, batch_size) ELSE emitted
    /\ pc' = "yield"
    /\ consumed' = FALSE
    /\ UNCHANGED <<state, memory, step_index, episode_reward, env, samples, idx,
                   run_weights, train_weights, iter_idx,
                   recording, calls, recorded, call, produced, last>>

\* The body of the training loop on the batch yielded: train_on_batch, then
\* run_model.set_weights(value_policy_model.get_weights()) when the synchronisation
\* is due.  The summaries and the checkpoint file it writes are read by nothing here.
TrainOnBatch ==
    /\ pc = "yield"
    /\ ~consumed
    /\ train_weights' = IF recording THEN train_weights + 1 ELSE train_weights
    /\ run_weights' = IF SyncDue(iter_idx) THEN train_weights' ELSE run_weights
    /\ iter_idx' = IF recording THEN iter_idx + 1 ELSE iter_idx
    /\ consumed' = TRUE
    /\ UNCHANGED <<state, memory, step_index, episode_reward, env, samples, pc, idx, batch,
                   recording, calls, recorded, call, produced, emitted, last>>

\* the generator is resumed: samples = samples[batch_size:]
Resume ==
    /\ pc = "yield"
    /\ consumed
    /\ samples' = Drop(samples, batch_size)
    /\ pc' = "slice"
    /\ UNCHANGED <<state, memory, step_index, episode_reward, env, idx, batch,
                   run_weights, train_weights, iter_idx, consumed,
                   recording, calls, recorded, call, produced, emitted, last>>

\* the while condition fails: the next round
NextRound ==
    /\ pc = "slice"
    /\ ~BatchReady(samples)
    /\ pc' = "round"
    /\ UNCHANGED <<state, memory, step_index, episode_reward, env, samples, idx, batch,
                   run_weights, train_weights, iter_idx, consumed,
                   recording, calls, recorded, call, produced, emitted, last>>

\* The transitions the iterations its appended to the memory.
RECURSIVE Appended(_, _)
Appended(its, k) ==
    IF k > Len(its) THEN <<>>
    ELSE <<its[k].before[Len(its[k].before)]>> \o Appended(its, k + 1)

\* A call play(n) on the first player, made on its own with any n: the players
\* share nothing, so one of them stands for each.
PlayCall ==
    \E n \in 0 .. MaxStepsToRun :
      \E inputs \in [1 .. n -> Actions \X BOOLEAN] :
        LET p == 1
            c == PlaySteps(p, inputs)
        IN  /\ env[p].steps + n <= MaxPlayed
            /\ state' = [state EXCEPT ![p] = c.player.state]
            /\ memory' = [memory EXCEPT ![p] = c.player.memory]
            /\ step_index' = [step_index EXCEPT ![p] = c.player.step_index]
            /\ episode_reward' = [episode_reward EXCEPT ![p] = c.player.episode_reward]
            /\ env' = [env EXCEPT ![p] = c.player.env]
            /\ recorded' = [recorded EXCEPT ![p] = @ \o Appended(c.iterations, 1)]
            /\ produced' = produced \o c.result
            /\ last' = IF c.iterations = <<>> THEN last
                       ELSE c.iterations[Len(c.iterations)]
            /\ call' = [player |-> p, n |-> n, iterations |-> c.iterations,
                        result |-> c.result, steps_before |-> env[p].steps]
            /\ UNCHANGED <<samples, pc, idx, batch, run_weights, train_weights, iter_idx,
                           consumed, recording, calls, emitted>>

Next == Play \/ Yield \/ TrainOnBatch \/ Resume \/ NextRound

Spec == Init /\ [][Next]_vars

\* A memory of player 1: n transitions from the observation numbered first on,
\* with the actions acts.
Segment(first, acts) ==
    [k \in 1 .. Len(acts) |->
        LET s == Observation(1, first + k - 1)
        IN  <<s, acts[k], Reward(acts[k]), PredictValue(s)>>]

\* Player 1 holds any memory of 1 .. MaxSegment transitions.
InitEstimator ==
    /\ recording = TRUE
    /\ \E n \in 1 .. MaxSegment, first \in 0 .. 1 :
         \E acts \in [1 .. n -> Actions] :
            /\ memory = [p \in players |-> IF p = 1 THEN Segment(first, acts) ELSE <<>>]
            /\ recorded = memory
            /\ state = [p \in players |-> Observation(p, IF p = 1 THEN first + n ELSE 0)]
            /\ env = [p \in players |->
                        [obs |-> IF p = 1 THEN first + n + 1 ELSE 1,
                         steps |-> IF p = 1 THEN n ELSE 0, start |-> 0,
                         since |-> IF p = 1 THEN n ELSE 0]]
    /\ step_index = [p \in players |-> 0]
    /\ episode_reward = [p \in players |-> 0]
    /\ call = NoCall
    /\ InitGenerator

\* _memory_to_samples applied to the memory of player 1, with either flag.
Estimate ==
    /\ memory[1] # <<>>
    /\ \E is_done \in BOOLEAN :
         LET f == MemoryToSamples(memory[1], is_done)
         IN  /\ memory' = [memory EXCEPT ![1] = f.memory]
             /\ produced' = produced \o f.result
             /\ last' = [NoPlay EXCEPT !.player = 1, !.flushed = TRUE, !.is_done = is_done,
                                       !.before = memory[1], !.result = f.result,
                                       !.after = f.memory]
    /\ UNCHANGED <<state, step_index, episode_reward, env, samples, pc, idx, batch,
                   run_weights, train_weights, iter_idx, consumed, recording, calls,
                   recorded, call, emitted>>

\* _memory_to_samples alone, on any memory.
EstimatorSpec == InitEstimator /\ [][Estimate]_vars

\* Calls of play alone, with any number of steps.
PlaySpec == Init /\ [][PlayCall]_vars

\* The loop of generate_batches and its consumer run in one thread and never wait.
LiveSpec == InitLive /\ [][Next]_vars /\ WF_vars(Next)

\* ================================================================ claims
\* gamma * x, as the claims write it
TimesGamma(x) == (x * gamma.num) \div gamma.den

\* The transitions a flush converts: all of them, or all but the popped last one.
Converted == IF last.is_done THEN last.before
             ELSE SubSeq(last.before, 1, Len(last.before) - 1)

\* The transition the i-th returned sample is derived from: samples come most recent first.
Origin(i) == Converted[Len(Converted) + 1 - i]

\* C1: a step that exceeds max_steps flushes the memory as terminal whatever done
\* is: the returns are seeded with R = 0, every transition of the memory, the most
\* recent one included, becomes a sample, and the memory is empty afterwards.
C1_TruncationFlushesAsTerminal ==
    (last.flushed /\ last.truncated) =>
        /\ Len(last.result) = Len(last.before)
        /\ Len(last.result) >= 1 =>
               last.result[1][3] = last.before[Len(last.before)][3] + TimesGamma(0)
        /\ last.after = <<>>
        /\ memory[last.player] = <<>>

\* C2: the memory of a player never holds more than reward_steps + 1 transitions;
\* right after a flush it is empty if the flush was made at an episode end or a
\* truncation, and holds exactly one transition otherwise.
C2_MemoryAfterFlush ==
    /\ \A p \in players : Len(memory[p]) <= reward_steps + 1
    /\ last.flushed =>
           Len(memory[last.player]) = IF last.done \/ last.truncated THEN 0 ELSE 1

\* C3: the returns of the samples of a flush satisfy R_t = reward_t + gamma * R_{t+1}
\* over the converted transitions, the return after the last of them being 0 when
\* the flush is terminal (is_done) and the value estimate of the popped last
\* transition otherwise.
C3_ReturnRecurrence ==
    last.flushed =>
        LET seed == IF last.is_done THEN 0 ELSE last.before[Len(last.before)][4]
        IN  /\ Len(last.result) = Len(Converted)
            /\ \A i \in 1 .. Len(last.result) :
                   last.result[i][3] =
                       Origin(i)[3] + TimesGamma(IF i = 1 THEN seed ELSE last.result[i - 1][3])

C3_Witness ==
    /\ last.flushed
    /\ ~last.is_done
    /\ Len(last.result) >= 1
    /\ last.before[1][3] > 0

\* C4: every sample of a flush has the state and the action of the transition it
\* is derived from, and its advantage is its return minus that transition's value
\* estimate.
C4_AdvantageOfSample ==
    last.flushed =>
        \A i \in 1 .. Len(last.result) :
            /\ i <= Len(Converted)
            /\ last.result[i][1] = Origin(i)[1]
            /\ last.result[i][2] = Origin(i)[2]
            /\ last.result[i][4] = last.result[i][3] - Origin(i)[4]

C4_Witness ==
    /\ last.flushed
    /\ Len(last.result) >= 2
    /\ last.result[1][4] # 0
    /\ last.result[2][4] # 0

\* C5: a non-terminal flush of a memory of reward_steps + 1 transitions returns
\* reward_steps samples and leaves a memory of one transition, the last one of the
\* flushed memory.
C5_NonTerminalFlush ==
    (last.flushed /\ ~last.is_done /\ Len(last.before) = reward_steps + 1) =>
        /\ Len(last.result) = reward_steps
        /\ last.after = <<last.before[Len(last.before)]>>
        /\ memory[last.player] = last.after

C5_Witness ==
    /\ last.flushed
    /\ ~last.is_done
    /\ ~last.truncated
    /\ Len(last.before) = reward_steps + 1

\* C6: a terminal flush (is_done) of a memory of L transitions returns L samples,
\* one for each transition, and leaves the memory empty.
C6_TerminalFlush ==
    (last.flushed /\ last.is_done) =>
        /\ Len(last.result) = Len(last.before)
        /\ \A t \in 1 .. Len(last.before) :
               /\ last.result[Len(last.before) + 1 - t][1] = last.before[t][1]
               /\ last.result[Len(last.before) + 1 - t][2] = last.before[t][2]
        /\ last.after = <<>>
        /\ memory[last.player] = <<>>

C6_Witness ==
    /\ last.flushed
    /\ last.is_done
    /\ Len(last.before) = reward_steps + 1

\* The i-th sample of the batch yielded.
BatchSample(i) == <<batch[1][1][i], batch[1][2][i], batch[2][1][i], batch[1][3][i]>>

\* C7: a batch yielded holds exactly batch_size samples, the first batch_size
\* samples of the pool at the yield, in the order of the pool.
C7_BatchIsPoolPrefix ==
    pc = "yield" =>
        /\ \A k \in 1 .. 3 : Len(batch[1][k]) = batch_size
        /\ \A k \in 1 .. 2 : Len(batch[2][k]) = batch_size
        /\ Len(samples) >= batch_size
        /\ \A i \in 1 .. batch_size : BatchSample(i) = samples[i]

C7_Witness ==
    /\ pc = "yield"
    /\ Len(samples) > batch_size
    /\ samples[1] # samples[batch_size + 1]

\* The samples of the pool not yet emitted: the batch of a yield stays at the head
\* of the list until the generator is resumed.
Pool == IF pc = "yield" THEN SubSeq(samples, batch_size + 1, Len(samples)) ELSE samples

\* C8: the batches yielded so far, concatenated, followed by the pool are the
\* samples returned by the play calls so far, in the order of their arrival.
C8_NoSampleLost == emitted \o Pool = produced

C8_Witness ==
    /\ pc = "round"
    /\ Len(emitted) >= 2 * batch_size
    /\ Len(samples) >= 1

\* The number of play calls made on player p.
CallsOf(p) == Cardinality({k \in DOMAIN calls : calls[k] = p})

\* C9: the play calls go round the players in list order, one step each, the
\* samples of a call arriving before those of the next call, and the batches are
\* cut only between rounds: at a yield every player has taken the same number of
\* environment steps.
C9_RoundRobin ==
    /\ \A k \in DOMAIN calls : calls[k] = ((k - 1) % PLAYERS_COUNT) + 1
    /\ \A p \in players : env[p].steps = CallsOf(p)
    /\ calls # <<>> =>
           /\ last.player = calls[Len(calls)]
           /\ Len(produced) >= Len(last.result)
           /\ SubSeq(produced, Len(produced) - Len(last.result) + 1, Len(produced)) = last.result
    /\ pc \in {"slice", "yield"} =>
           \A p, q \in players : env[p].steps = env[q].steps

C9_Witness ==
    /\ pc = "yield"
    /\ \A p \in players : env[p].steps >= 2
    /\ Len(emitted) = batch_size

\* C10: generate_batches never ends: whatever the environments do, a batch is
\* yielded again and again.
C10_BatchesForever == []<><<Yield>>_vars

C10_Witness ==
    /\ ~recording
    /\ pc = "yield"
    /\ \E p \in players : step_index[p] = max_steps

\* C11: the acting policy is written only while the generator stands at a yield,
\* and after the first trained batch every step of a player reads acting weights
\* equal to the trained weights of the most recent train_on_batch.
C11_ActingWeightsInSync ==
    /\ (last.player # 0 /\ last.batches >= 1) =>
           /\ last.weights = last.trained
           /\ last.trained = last.batches
    /\ (pc # "yield" /\ iter_idx >= 1) => run_weights = train_weights
    /\ train_weights = iter_idx

C11_Witness ==
    /\ last.player # 0
    /\ last.batches >= 2
    /\ last.weights = 2

\* The samples of the batch yielded last, as the history has them.
LastEmitted == SubSeq(emitted, Len(emitted) - batch_size + 1, Len(emitted))

\* C12: the batch yielded is the pair of the inputs (states, actions, advantages)
\* and the targets (returns, returns); each of them has batch_size entries, and
\* the entries at one index are the four fields of one sample.
C12_BatchColumnsAligned ==
    pc = "yield" =>
        /\ Len(batch) = 2
        /\ Len(batch[1]) = 3
        /\ Len(batch[2]) = 2
        /\ batch[2][1] = batch[2][2]
        /\ Len(emitted) >= batch_size
        /\ \A k \in 1 .. 3 : DOMAIN batch[1][k] = 1 .. batch_size
        /\ DOMAIN batch[2][1] = 1 .. batch_size
        /\ \A i \in 1 .. batch_size :
               /\ batch[1][1][i] = LastEmitted[i][1]
               /\ batch[1][2][i] = LastEmitted[i][2]
               /\ batch[2][1][i] = LastEmitted[i][3]
               /\ batch[1][3][i] = LastEmitted[i][4]

C12_Witness ==
    /\ pc = "yield"
    /\ batch[1][3] # batch[2][1]
    /\ batch[1][2][1] # batch[1][2][2]
    /\ batch[2][1][1] # batch[2][1][2]

\* The step of the last play call ended an episode or exceeded the step budget.
LastOver == last.player # 0 /\ (last.done \/ last.truncated)

\* C13: after a step that ends an episode or exceeds the step budget the player's
\* step counter and reward accumulator are zero and its state is the observation
\* the environment's reset returned, not the new_state of the step; the transition
\* a player records next starts from the state the player holds.
C13_ResetAfterEpisode ==
    /\ [](LastOver =>
            /\ step_index[last.player] = 0
            /\ episode_reward[last.player] = 0
            /\ state[last.player] = last.reset_state
            /\ last.reset_state = Observation(last.player, env[last.player].start)
            /\ last.reset_state # last.new_state
            /\ env[last.player].since = 0)
    /\ [][calls' # calls =>
            last'.before[Len(last'.before)][1] = state[last'.player]]_vars

C13_Witness ==
    /\ LastOver
    /\ last.truncated
    /\ ~last.done
    /\ last.ran = max_steps + 1
    /\ state[last.player] = last.reset_state

\* An iteration that ended an episode or exceeded the step budget.
OverIn(it) == it.done \/ it.truncated

\* The samples of the flushes of the iterations its, from the k-th on.
RECURSIVE FlushedBy(_, _)
FlushedBy(its, k) ==
    IF k > Len(its) THEN <<>>
    ELSE (IF its[k].flushed THEN its[k].result ELSE <<>>) \o FlushedBy(its, k + 1)

\* C14: a call play(n) steps the environment n times unless a step ends an episode
\* or exceeds the step budget; it stops right after the first such step, and it
\* returns the samples of the flushes it made, in their order.
C14_PlayStopsAtEpisodeEnd ==
    call.player # 0 =>
        LET its == call.iterations
            k == Len(its)
        IN  /\ k <= call.n
            /\ \A i \in 1 .. k - 1 : ~OverIn(its[i])
            /\ k < call.n => (k >= 1 /\ OverIn(its[k]))
            /\ env[call.player].steps = call.steps_before + k
            /\ call.result = FlushedBy(its, 1)

C14_Witness ==
    /\ call.player # 0
    /\ Len(call.iterations) = 2
    /\ call.n > 2
    /\ call.iterations[1].result # <<>>
    /\ call.iterations[2].result # <<>>

\* C15: the samples of one flush come most recent first: the first one is derived
\* from the most recent transition converted and the last one from the oldest
\* transition of the memory (an environment hands out its observations in the
\* order of their numbers).
C15_ReverseChronological ==
    last.flushed =>
        /\ \A i, j \in 1 .. Len(last.result) :
               i < j => last.result[i][1][2] > last.result[j][1][2]
        /\ \A i, j \in 1 .. Len(last.before) :
               i < j => last.before[i][1][2] < last.before[j][1][2]
        /\ last.result # <<>> =>
               /\ last.result[1][1] = Converted[Len(Converted)][1]
               /\ last.result[Len(last.result)][1] = last.before[1][1]

C15_Witness ==
    /\ last.flushed
    /\ Len(last.result) >= 2
    /\ last.result[1][1] = last.before[Len(last.before)][1]
    /\ last.result[2][1] = last.before[1][1]

\* C16: a non-terminal flush (is_done false) of a memory of one transition returns
\* no sample and leaves the memory holding that transition, unchanged.
C16_SingleTransitionFlush ==
    (last.flushed /\ ~last.is_done /\ Len(last.before) = 1) =>
        /\ last.result = <<>>
        /\ last.after = last.before
        /\ memory[last.player] = last.before
        /\ recorded[last.player][Len(recorded[last.player])] = memory[last.player][1]

C16_Witness ==
    /\ last.flushed
    /\ ~last.is_done
    /\ Len(last.before) = 1
    /\ last.before[1][3] > 0
    /\ produced = <<>>

\* The samples player p has returned so far, in order.
SamplesOf(p) == SelectSeq(produced, LAMBDA s : s[1][1] = p)

\* What identifies the transition of a transition or of a sample: state and action.
KeysOf(seq) == {<<seq[i][1], seq[i][2]>> : i \in 1 .. Len(seq)}

\* C17: for every player, the transitions recorded so far are the transitions of
\* the samples returned so far together with the transitions in memory, each of
\* them once: none is lost and none is converted twice.
C17_TransitionsConserved ==
    \A p \in players :
        /\ Cardinality(KeysOf(recorded[p])) = Len(recorded[p])
        /\ Len(SamplesOf(p)) + Len(memory[p]) = Len(recorded[p])
        /\ KeysOf(SamplesOf(p)) \cup KeysOf(memory[p]) = KeysOf(recorded[p])
        /\ KeysOf(SamplesOf(p)) \cap KeysOf(memory[p]) = {}

C17_Witness ==
    /\ last.player # 0
    /\ last.truncated
    /\ ~last.done
    /\ Len(memory[last.player]) = 1
    /\ Len(SamplesOf(last.player)) >= 2

\* C18: the memory of a player holds transitions of the environment's current
\* episode only, and the transitions a flush computes returns from belong to one
\* episode: a transition is of the episode that started with the observation
\* numbered start when its state is numbered start or later.
C18_SingleEpisodeReturns ==
    /\ \A p \in players : \A i \in 1 .. Len(memory[p]) :
           memory[p][i][1][2] >= env[p].start
    /\ last.flushed =>
           \A i \in 1 .. Len(last.before) : last.before[i][1][2] >= last.start

\* C19: between the calls of play the step counter of a player is within
\* 0 .. max_steps and counts the steps of the environment's running episode, and
\* no episode has run for more than max_steps + 1 steps when it is reset.
C19_StepBudget ==
    /\ \A p \in players :
           /\ step_index[p] >= 0
           /\ step_index[p] <= max_steps
           /\ step_index[p] = env[p].since
    /\ last.player # 0 =>
           /\ last.ran <= max_steps + 1
           /\ last.ran = max_steps + 1 => env[last.player].since = 0

C19_Witness ==
    /\ last.player # 0
    /\ last.ran = max_steps + 1
    /\ step_index[last.player] = 0
    /\ \E p \in players : step_index[p] = max_steps

\* The most samples one call play(1) returns.
MostPerCall == reward_steps + 1

\* C20, as claimed: whenever generate_batches is about to advance a player the
\* pool holds fewer than batch_size samples; a call play(1) returns at most
\* reward_steps + 1 samples; the pool never holds more than
\* batch_size - 1 + PLAYERS_COUNT * (reward_steps + 1) samples.
C20_PoolBelowBatchAtEveryPlay ==
    /\ pc = "round" => Len(samples) < batch_size
    /\ last.player # 0 => Len(last.result) <= MostPerCall
    /\ Len(samples) <= batch_size - 1 + PLAYERS_COUNT * MostPerCall

\* C20, amended: the pool holds fewer than batch_size samples whenever a round
\* starts, that is when the first player is about to be advanced; within a round
\* it grows by at most reward_steps + 1 samples with every player advanced, and it
\* never holds more than batch_size - 1 + PLAYERS_COUNT * (reward_steps + 1) samples.
C20_PoolBound ==
    /\ (pc = "round" /\ idx = 1) => Len(samples) < batch_size
    /\ pc = "round" => Len(samples) <= batch_size - 1 + (idx - 1) * MostPerCall
    /\ last.player # 0 => Len(last.result) <= MostPerCall
    /\ Len(samples) <= batch_size - 1 + PLAYERS_COUNT * MostPerCall

C20_Witness ==
    /\ pc = "round"
    /\ idx = 2
    /\ Len(samples) >= batch_size
    /\ Len(last.result) = MostPerCall
====
